---- MODULE Spec2Model ----
(***************************************************************************)
(* Model of app.py: the Dash callback update_graph and the pipeline of     *)
(* generate_network_figure (record filter, per-investor aggregation,       *)
(* co-investment graph, two-stage pruning, layout, hover texts).           *)
(*                                                                         *)
(* Python strings are sequences of one-character strings, so that split,   *)
(* strip and str.contains are computed character by character.  Optional   *)
(* values (a callback argument that may be None, a year that may be NaT)   *)
(* are sequences of length at most one: <<>> is None, <<x>> is x.          *)
(***************************************************************************)
EXTENDS Integers, Sequences, FiniteSets, TLC

VARIABLES df, pc, args, ran, df_filtered, investor_info, co_investments,
          G_built, G_deg, G, pos_3d, hover_texts, fig

vars == <<df, pc, args, ran, df_filtered, investor_info, co_investments,
          G_built, G_deg, G, pos_3d, hover_texts, fig>>

(***************************************************************************)
(* Bounds                                                                  *)
(***************************************************************************)
MaxRecords == 3
MaxFilterRecords == 2
MaxHoverRecords == 5
MaxMinDegree == 2
MaxMinRounds == 3

(***************************************************************************)
(* Optional values and strings                                             *)
(***************************************************************************)
None == <<>>
Some(x) == <<x>>
IsNone(o) == o = <<>>
Val(o) == o[1]

Range(s) == {s[i] : i \in 1..Len(s)}

\* str.lower on the characters of the modelled alphabet
Lower(c) == IF c = "A" THEN "a" ELSE c

\* characters removed by str.strip()
IsSpace(c) == c = " "

RECURSIVE LStrip(_)
LStrip(s) == IF s # <<>> /\ IsSpace(Head(s)) THEN LStrip(Tail(s)) ELSE s

RECURSIVE RStrip(_)
RStrip(s) ==
    IF s # <<>> /\ IsSpace(s[Len(s)]) THEN RStrip(SubSeq(s, 1, Len(s) - 1)) ELSE s

\* str.strip()
Strip(s) == RStrip(LStrip(s))

\* str.split(','): one more piece than there are commas
RECURSIVE Split(_)
Split(s) ==
    IF \A i \in 1..Len(s) : s[i] # ","
    THEN <<s>>
    ELSE LET c == CHOOSE i \in 1..Len(s) :
                     s[i] = "," /\ \A j \in 1..(i - 1) : s[j] # ","
         IN <<SubSeq(s, 1, c - 1)>> \o Split(SubSeq(s, c + 1, Len(s)))

\* [inv.strip() for inv in row['Investor Names'].split(',')]
Investors(names) == LET parts == Split(names)
                    IN [i \in 1..Len(parts) |-> Strip(parts[i])]

(***************************************************************************)
(* Series.str.contains(pat, case=False, na=False).  regex defaults to      *)
(* True, so pat is compiled with re.IGNORECASE and searched in the field.  *)
(* The modelled alphabet has the metacharacters "." (any character) and    *)
(* "(" (opens a group; no ")" exists in the alphabet, so a pattern with    *)
(* "(" does not compile).  re.compile(None) raises TypeError.              *)
(***************************************************************************)
ReCompileFails(pat) == \E i \in 1..Len(pat) : pat[i] = "("

ReCharMatches(p, c) == p = "." \/ Lower(p) = Lower(c)

ReSearch(pat, text) ==
    \E off \in 0..(Len(text) - Len(pat)) :
        \A k \in 1..Len(pat) : ReCharMatches(pat[k], text[off + k])

All == <<"A", "l", "l">>

(***************************************************************************)
(* networkx.Graph: nodes in insertion order, adjacency sets; a self-loop   *)
(* is the node being its own neighbour and counts 2 in the degree.         *)
(***************************************************************************)
EmptyGraph == [nodes |-> <<>>, adj |-> <<>>]

NodeSet(g) == Range(g.nodes)

AddNode(g, n) ==
    IF n \in NodeSet(g) THEN g
    ELSE [nodes |-> Append(g.nodes, n),
          adj   |-> [m \in NodeSet(g) \cup {n} |-> IF m = n THEN {} ELSE g.adj[m]]]

AddEdge(g, u, v) ==
    LET g2 == AddNode(AddNode(g, u), v)
    IN [g2 EXCEPT !.adj = [m \in NodeSet(g2) |->
            IF m = u /\ m = v THEN g2.adj[m] \cup {u}
            ELSE IF m = u THEN g2.adj[m] \cup {v}
            ELSE IF m = v THEN g2.adj[m] \cup {u}
            ELSE g2.adj[m]]]

RECURSIVE add_edges_from(_, _)
add_edges_from(g, pairs) ==
    IF pairs = <<>> THEN g
    ELSE add_edges_from(AddEdge(g, Head(pairs)[1], Head(pairs)[2]), Tail(pairs))

Degree(g, n) == Cardinality(g.adj[n]) + (IF n \in g.adj[n] THEN 1 ELSE 0)

RemoveNode(g, n) ==
    IF n \notin NodeSet(g) THEN g
    ELSE [nodes |-> SelectSeq(g.nodes, LAMBDA m : m # n),
          adj   |-> [m \in NodeSet(g) \ {n} |-> g.adj[m] \ {n}]]

RECURSIVE remove_nodes_from(_, _)
remove_nodes_from(g, ns) ==
    IF ns = <<>> THEN g
    ELSE remove_nodes_from(RemoveNode(g, Head(ns)), Tail(ns))

Index(s, x) == CHOOSE i \in 1..Len(s) : s[i] = x

\* G.edges(): each edge once, reported from the endpoint that comes first
GEdges(g) ==
    {<<u, v>> \in NodeSet(g) \X NodeSet(g) :
        v \in g.adj[u] /\ Index(g.nodes, u) <= Index(g.nodes, v)}

(***************************************************************************)
(* create_co_investment_pairs: every index pair i < j in list order, kept  *)
(* when both stripped names are non-empty.                                 *)
(***************************************************************************)
RECURSIVE IndexPairsFrom(_, _, _)
IndexPairsFrom(n, i, j) ==
    IF i > n THEN <<>>
    ELSE IF j > n THEN IndexPairsFrom(n, i + 1, i + 2)
    ELSE <<<<i, j>>>> \o IndexPairsFrom(n, i, j + 1)

IndexPairs(n) == IndexPairsFrom(n, 1, 2)

CandidatePairs(investors) ==
    LET ip == IndexPairs(Len(investors))
    IN [k \in 1..Len(ip) |-> <<Strip(investors[ip[k][1]]), Strip(investors[ip[k][2]])>>]

create_pairs_unchecked(investors) == CandidatePairs(investors)

create_pairs_ordered(investors) ==
    LET n == Len(investors)
        ip == SelectSeq([k \in 1..(n * n) |-> <<((k - 1) \div n) + 1, ((k - 1) % n) + 1>>],
                        LAMBDA p : p[1] # p[2])
        cand == [k \in 1..Len(ip) |-> <<Strip(investors[ip[k][1]]), Strip(investors[ip[k][2]])>>]
    IN SelectSeq(cand, LAMBDA p : p[1] # <<>> /\ p[2] # <<>>)

create_co_investment_pairs(investors) ==
    SelectSeq(CandidatePairs(investors), LAMBDA p : p[1] # <<>> /\ p[2] # <<>>)

(***************************************************************************)
(* Aggregation (the money column takes no part in any graph decision and   *)
(* is left out of the rows).                                               *)
(***************************************************************************)
\* f"{Transaction Name} | {Organization Name} | {Funding Stage}"
transaction_detail(row) == <<row.tx, row.org, row.stage>>

AggInvestor(info, inv, detail) ==
    LET info1 == IF inv \in DOMAIN info THEN info
                 ELSE [k \in DOMAIN info \cup {inv} |->
                          IF k = inv THEN [rounds |-> 0, transactions |-> <<>>]
                          ELSE info[k]]
    IN [info1 EXCEPT ![inv] = [rounds |-> @.rounds + 1,
                               transactions |-> Append(@.transactions, detail)]]

RECURSIVE AggInvestors(_, _, _)
AggInvestors(info, investors, detail) ==
    IF investors = <<>> THEN info
    ELSE AggInvestors(AggInvestor(info, Head(investors), detail), Tail(investors), detail)

RECURSIVE AggRows(_, _)
AggRows(info, rows) ==
    IF rows = <<>> THEN info
    ELSE LET row == Head(rows)
             info1 == IF row.names # <<>>
                      THEN AggInvestors(info, Investors(row.names), transaction_detail(row))
                      ELSE info
         IN AggRows(info1, Tail(rows))

RECURSIVE CoInvestments(_)
CoInvestments(rows) ==
    IF rows = <<>> THEN <<>>
    ELSE LET row == Head(rows)
         IN (IF row.names # <<>>
             THEN create_co_investment_pairs(Investors(row.names))
             ELSE <<>>) \o CoInvestments(Tail(rows))

(***************************************************************************)
(* Structural filter                                                       *)
(***************************************************************************)
nodes_to_remove_degree(g, min_degree) ==
    SelectSeq(g.nodes, LAMBDA n : Degree(g, n) < min_degree)

RoundsOf(info, n) == IF n \in DOMAIN info THEN info[n].rounds ELSE 0

nodes_to_remove_rounds_inclusive(g, info, min_rounds) ==
    SelectSeq(g.nodes, LAMBDA n : RoundsOf(info, n) <= min_rounds)

nodes_to_remove_rounds(g, info, min_rounds) ==
    SelectSeq(g.nodes, LAMBDA n : RoundsOf(info, n) < min_rounds)

RECURSIVE PruneDegreeToFixpoint(_, _)
PruneDegreeToFixpoint(g, min_degree) ==
    LET low == SelectSeq(g.nodes, LAMBDA n : Degree(g, n) < min_degree)
    IN IF low = <<>> THEN g
       ELSE PruneDegreeToFixpoint(remove_nodes_from(g, low), min_degree)

PruneDegreeStage(g, min_degree) ==
    remove_nodes_from(g, nodes_to_remove_degree(g, min_degree))

PruneRoundsStage(g, info, min_rounds) ==
    remove_nodes_from(g, nodes_to_remove_rounds(g, info, min_rounds))

(***************************************************************************)
(* Hover texts                                                             *)
(***************************************************************************)
\* list(dict.fromkeys(xs))
RECURSIVE Dedup(_)
Dedup(s) ==
    IF s = <<>> THEN <<>>
    ELSE LET d == Dedup(SubSeq(s, 1, Len(s) - 1))
         IN IF s[Len(s)] \in Range(d) THEN d ELSE Append(d, s[Len(s)])

Ellipsis == <<"...">>

hover_transactions_late_cut(transactions) ==
    LET t == Dedup(transactions)
    IN IF Len(t) > 4 THEN SubSeq(t, 1, 3) \o <<Ellipsis>> ELSE t

hover_transactions(transactions) ==
    LET t == Dedup(transactions)
    IN IF Len(t) > 3 THEN SubSeq(t, 1, 3) \o <<Ellipsis>> ELSE t

(***************************************************************************)
(* Figures                                                                 *)
(***************************************************************************)
NoTitle == <<>>
NoInvestorsTitle == <<"No investors meet the minimum requirements for this time period.">>

Figure(kind, title) ==
    [kind |-> kind, title |-> title, nodes |-> <<>>, pos |-> <<>>,
     edges |-> {}, hover |-> <<>>, sizes |-> <<>>]

NoFigure == Figure("none", NoTitle)

(***************************************************************************)
(* The data frame read at start-up and the callback arguments              *)
(***************************************************************************)
SeqsUpTo(S, n) == UNION {[1..k -> S] : k \in 0..n}

Rows(years, fields, txs) ==
    [year : years, names : fields, tx : txs, org : {"Org"}, stage : {"Seed"}]

Requests(investors, years, degrees, rounds) ==
    [investor_perspective : investors, start_year : years, end_year : years,
     min_degree : degrees, min_rounds : rounds]

NoArgs == [investor_perspective |-> None, start_year |-> None, end_year |-> None,
           min_degree |-> None, min_rounds |-> None]

\* graph-shaped data: duplicates, blanks, single investors, a triple
FieldsMain == { <<"b", ",", "a">>, <<"b", ",", ",", "c">>, <<"a", ",", " ", "a">>,
                <<"c">>, <<>>, <<"a", ",", "b", ",", "c">> }
RowsMain == Rows({Some(2020)}, FieldsMain, {"T1"})
RequestsMain ==
    Requests({Some(All)}, {Some(2020)},
             {Some(d) : d \in 0..MaxMinDegree}, {Some(r) : r \in 0..MaxMinRounds})

\* filter-shaped data: two years and a missing date, upper and lower case
FieldsFilter == { <<"a", ",", "b">>, <<"A", ",", "c">>, <<"b", ",", "c">> }
RowsFilter == Rows({Some(2020), Some(2021), None}, FieldsFilter, {"T1"})
PatternsFilter == { None, Some(All), Some(<<"a", "l", "l">>), Some(<<"a">>),
                    Some(<<"a", ".", "b">>), Some(<<"(">>) }
RequestsFilter ==
    Requests(PatternsFilter, {None, Some(2020), Some(2021)}, {None, Some(1)}, {None, Some(1)})

\* hover-shaped data: one pair of investors on many transactions
RowsHover == Rows({Some(2020)}, {<<"a", ",", "b">>}, {"T1", "T2", "T3", "T4"})
RequestsHover ==
    Requests({Some(All)}, {Some(2020)}, {Some(1), Some(2)}, {Some(1)})

(***************************************************************************)
(* State                                                                   *)
(***************************************************************************)
Locals ==
    /\ ran = {}
    /\ df_filtered = <<>>
    /\ investor_info = <<>>
    /\ co_investments = <<>>
    /\ G_built = EmptyGraph
    /\ G_deg = EmptyGraph
    /\ G = EmptyGraph
    /\ pos_3d = <<>>
    /\ hover_texts = <<>>

InitWith(rows, n) ==
    /\ df \in SeqsUpTo(rows, n)
    /\ pc = "idle"
    /\ args = NoArgs
    /\ fig = NoFigure
    /\ Locals

Init == InitWith(RowsMain, MaxRecords)
InitFilter == InitWith(RowsFilter, MaxFilterRecords)
InitHover == InitWith(RowsHover, MaxHoverRecords)

(***************************************************************************)
(* The callback fires with the values of the five inputs.                  *)
(***************************************************************************)
Dispatch(reqs) ==
    /\ pc = "idle"
    /\ \E r \in reqs : args' = r
    /\ pc' = "update_graph"
    /\ fig' = NoFigure
    /\ UNCHANGED <<df, ran, df_filtered, investor_info, co_investments,
                   G_built, G_deg, G, pos_3d, hover_texts>>

\* update_graph: the None guard and the year swap
update_graph ==
    /\ pc = "update_graph"
    /\ IF \E o \in {args.start_year, args.end_year, args.min_degree, args.min_rounds} : IsNone(o)
       THEN /\ fig' = Figure("empty", NoTitle)
            /\ pc' = "done"
            /\ args' = args
       ELSE /\ args' = IF Val(args.start_year) > Val(args.end_year)
                       THEN [args EXCEPT !.start_year = args.end_year,
                                         !.end_year = args.start_year]
                       ELSE args
            /\ pc' = "filter"
            /\ fig' = fig
    /\ UNCHANGED <<df, ran, df_filtered, investor_info, co_investments,
                   G_built, G_deg, G, pos_3d, hover_texts>>

\* a NaT date has year NaN, and every comparison with NaN is False
YearInRange(row, start_year, end_year) ==
    /\ ~IsNone(row.year)
    /\ Val(row.year) >= start_year
    /\ Val(row.year) <= end_year

\* generate_network_figure, the two record filters
FilterRecords ==
    /\ pc = "filter"
    /\ LET by_year == SelectSeq(df, LAMBDA row :
                          YearInRange(row, Val(args.start_year), Val(args.end_year)))
           pat == args.investor_perspective
       IN IF pat = Some(All)
          THEN /\ df_filtered' = by_year
               /\ pc' = "aggregate"
               /\ fig' = fig
          ELSE IF IsNone(pat)
          THEN /\ df_filtered' = by_year
               /\ pc' = "done"
               /\ fig' = Figure("error", <<"TypeError">>)
          ELSE IF ReCompileFails(Val(pat))
          THEN /\ df_filtered' = by_year
               /\ pc' = "done"
               /\ fig' = Figure("error", <<"re.error">>)
          ELSE /\ df_filtered' = SelectSeq(by_year, LAMBDA row : ReSearch(Val(pat), row.names))
               /\ pc' = "aggregate"
               /\ fig' = fig
    /\ ran' = ran \cup {"filter"}
    /\ UNCHANGED <<df, args, investor_info, co_investments,
                   G_built, G_deg, G, pos_3d, hover_texts>>

Aggregate ==
    /\ pc = "aggregate"
    /\ investor_info' = AggRows(<<>>, df_filtered)
    /\ ran' = ran \cup {"aggregate"}
    /\ pc' = "build"
    /\ UNCHANGED <<df, args, df_filtered, co_investments,
                   G_built, G_deg, G, pos_3d, hover_texts, fig>>

BuildGraph ==
    /\ pc = "build"
    /\ co_investments' = CoInvestments(df_filtered)
    /\ G_built' = add_edges_from(EmptyGraph, co_investments')
    /\ G' = G_built'
    /\ ran' = ran \cup {"build"}
    /\ pc' = "prune_degree"
    /\ UNCHANGED <<df, args, df_filtered, investor_info, G_deg, pos_3d, hover_texts, fig>>

PruneDegree ==
    /\ pc = "prune_degree"
    /\ G' = PruneDegreeStage(G, Val(args.min_degree))
    /\ G_deg' = G'
    /\ ran' = ran \cup {"prune_degree"}
    /\ pc' = "prune_rounds"
    /\ UNCHANGED <<df, args, df_filtered, investor_info, co_investments,
                   G_built, pos_3d, hover_texts, fig>>

PruneRounds ==
    /\ pc = "prune_rounds"
    /\ G' = PruneRoundsStage(G, investor_info, Val(args.min_rounds))
    /\ ran' = ran \cup {"prune_rounds"}
    /\ pc' = "check_empty"
    /\ UNCHANGED <<df, args, df_filtered, investor_info, co_investments,
                   G_built, G_deg, pos_3d, hover_texts, fig>>

CheckEmpty ==
    /\ pc = "check_empty"
    /\ IF Len(G.nodes) = 0
       THEN /\ fig' = Figure("empty", NoInvestorsTitle)
            /\ pc' = "done"
       ELSE /\ fig' = fig
            /\ pc' = "layout"
    /\ UNCHANGED <<df, args, ran, df_filtered, investor_info, co_investments,
                   G_built, G_deg, G, pos_3d, hover_texts>>

\* nx.spring_layout gives every node of G a coordinate triple; the triple of
\* the i-th node is represented by i
spring_layout(g) == [n \in NodeSet(g) |-> Index(g.nodes, n)]

Layout ==
    /\ pc = "layout"
    /\ pos_3d' = spring_layout(G)
    /\ ran' = ran \cup {"layout"}
    /\ pc' = "render"
    /\ UNCHANGED <<df, args, df_filtered, investor_info, co_investments,
                   G_built, G_deg, G, hover_texts, fig>>

HoverText(g, info, n) ==
    IF n \in DOMAIN info
    THEN [name |-> n, co_investors |-> Degree(g, n), rounds |-> <<info[n].rounds>>,
          transactions |-> hover_transactions(info[n].transactions)]
    ELSE [name |-> n, co_investors |-> Degree(g, n), rounds |-> <<>>,
          transactions |-> <<>>]

NodeSize(info, n) == 5 + 2 * (IF n \in DOMAIN info THEN info[n].rounds ELSE 1)

Render ==
    /\ pc = "render"
    /\ hover_texts' = [n \in NodeSet(G) |-> HoverText(G, investor_info, n)]
    /\ fig' = [kind  |-> "graph",
               title |-> <<"Co-Investment Network">>,
               nodes |-> G.nodes,
               pos   |-> pos_3d,
               edges |-> {<<pos_3d[e[1]], pos_3d[e[2]]>> : e \in GEdges(G)},
               hover |-> hover_texts',
               sizes |-> [n \in NodeSet(G) |-> NodeSize(investor_info, n)]]
    /\ ran' = ran \cup {"render"}
    /\ pc' = "done"
    /\ UNCHANGED <<df, args, df_filtered, investor_info, co_investments,
                   G_built, G_deg, G, pos_3d>>

\* the figure goes to the browser and the call's locals are dropped
Respond ==
    /\ pc = "done"
    /\ pc' = "idle"
    /\ args' = NoArgs
    /\ fig' = NoFigure
    /\ ran' = {}
    /\ df_filtered' = <<>>
    /\ investor_info' = <<>>
    /\ co_investments' = <<>>
    /\ G_built' = EmptyGraph
    /\ G_deg' = EmptyGraph
    /\ G' = EmptyGraph
    /\ pos_3d' = <<>>
    /\ hover_texts' = <<>>
    /\ UNCHANGED df

Pipeline ==
    \/ update_graph
    \/ FilterRecords
    \/ Aggregate
    \/ BuildGraph
    \/ PruneDegree
    \/ PruneRounds
    \/ CheckEmpty
    \/ Layout
    \/ Render
    \/ Respond

Next == Dispatch(RequestsMain) \/ Pipeline
NextFilter == Dispatch(RequestsFilter) \/ Pipeline
NextHover == Dispatch(RequestsHover) \/ Pipeline

Spec == Init /\ [][Next]_vars
SpecFilter == InitFilter /\ [][NextFilter]_vars
SpecHover == InitHover /\ [][NextHover]_vars

(***************************************************************************)
(* Vocabulary of the properties                                            *)
(***************************************************************************)
MinDegree == Val(args.min_degree)
MinRounds == Val(args.min_rounds)

NonEmptyNames(row) == SelectSeq(Investors(row.names), LAMBDA x : x # <<>>)

Triangular(k) == (k * (k - 1)) \div 2

RECURSIVE SumOver(_, _)
SumOver(f, D) ==
    IF D = {} THEN 0
    ELSE LET x == CHOOSE y \in D : TRUE IN f[x] + SumOver(f, D \ {x})

Unordered(S) == {{e[1], e[2]} : e \in S}

GEdgesBothWays(g) ==
    {<<u, v>> \in NodeSet(g) \X NodeSet(g) : v \in g.adj[u]}

Induced(g, keep) ==
    [n \in keep |-> g.adj[n] \cap keep]

\* C1: the graph built from the filtered records has no edge from a node to
\* itself, whatever names the records list
C1_NoSelfLoop ==
    "build" \in ran =>
        /\ \A n \in NodeSet(G_built) : n \notin G_built.adj[n]
        /\ \A n \in NodeSet(G) : n \notin G.adj[n]

\* C2: after aggregation rounds(X) is the number of filtered records whose
\* trimmed investor list contains X, and it is the length of X's transaction
\* list
C2_RoundsCountRecords ==
    "aggregate" \in ran =>
        \A i \in 1..Len(df_filtered) :
            \A X \in Range(Investors(df_filtered[i].names)) :
                df_filtered[i].names # <<>> =>
                    /\ X \in DOMAIN investor_info
                    /\ investor_info[X].rounds =
                           Cardinality({j \in 1..Len(df_filtered) :
                               /\ df_filtered[j].names # <<>>
                               /\ X \in Range(Investors(df_filtered[j].names))})
                    /\ investor_info[X].rounds = Len(investor_info[X].transactions)

\* C3: a call with any of the five arguments None ends with the empty figure
\* and runs no stage of the pipeline
C3_NullGuard ==
    (/\ pc \notin {"idle", "update_graph"}
     /\ \/ IsNone(args.investor_perspective)
        \/ IsNone(args.start_year)
        \/ IsNone(args.end_year)
        \/ IsNone(args.min_degree)
        \/ IsNone(args.min_rounds))
        => /\ ran = {}
           /\ pc = "done" => fig.kind = "empty"

InRangeRows ==
    SelectSeq(df, LAMBDA row : YearInRange(row, Val(args.start_year), Val(args.end_year)))

ContainsIgnoreCase(text, sub) ==
    \E off \in 0..(Len(text) - Len(sub)) :
        \A k \in 1..Len(sub) : Lower(sub[k]) = Lower(text[off + k])

\* C4: with the filter "All" or "all" every record of the year range is
\* kept; with any other value exactly the records of the range whose names
\* field contains the value, compared case-insensitively
C4_RecordFilter ==
    ("filter" \in ran /\ ~IsNone(args.investor_perspective) /\ fig.kind # "error") =>
        LET v == Val(args.investor_perspective)
        IN df_filtered =
               IF v \in {All, <<"a", "l", "l">>}
               THEN InRangeRows
               ELSE SelectSeq(InRangeRows, LAMBDA row : ContainsIgnoreCase(row.names, v))

\* C5: stage 1 removes exactly the nodes whose degree in the unpruned graph
\* is below min_degree; the degrees are not recomputed after a removal, and
\* the surviving graph is a function of the unpruned graph and min_degree
C5_SinglePass ==
    "prune_degree" \in ran =>
        LET keep == {n \in NodeSet(G_built) : Degree(G_built, n) >= MinDegree}
        IN /\ NodeSet(G_deg) = keep
           /\ G_deg.adj = Induced(G_built, keep)
           /\ G_deg.nodes = SelectSeq(G_built.nodes, LAMBDA n : n \in keep)

\* C5 witness: the path a-b-c with min_degree 2 leaves b alone, at degree 0
C5_Witness ==
    /\ "prune_degree" \in ran
    /\ MinDegree = 2
    /\ G_built.adj = (<<"a">> :> {<<"b">>}) @@ (<<"b">> :> {<<"a">>, <<"c">>})
                       @@ (<<"c">> :> {<<"b">>})
    /\ G_deg.nodes = << <<"b">> >>
    /\ Degree(G_deg, <<"b">>) = 0

AllPresent ==
    /\ ~IsNone(args.investor_perspective)
    /\ ~IsNone(args.start_year)
    /\ ~IsNone(args.end_year)
    /\ ~IsNone(args.min_degree)
    /\ ~IsNone(args.min_rounds)

EmptyOutcome ==
    /\ fig.kind = "empty"
    /\ fig.title = NoInvestorsTitle
    /\ NodeSet(G) = {}
    /\ "layout" \notin ran
    /\ "render" \notin ran

GraphOutcome ==
    /\ fig.kind = "graph"
    /\ NodeSet(G) # {}
    /\ Range(fig.nodes) = NodeSet(G)
    /\ DOMAIN fig.pos = NodeSet(G)
    /\ DOMAIN fig.hover = NodeSet(G)
    /\ DOMAIN fig.sizes = NodeSet(G)
    /\ \A e \in fig.edges :
           \E u, v \in NodeSet(G) :
               /\ e = <<fig.pos[u], fig.pos[v]>>
               /\ v \in G_built.adj[u]
    /\ Cardinality(fig.edges) = Cardinality(Unordered(GEdgesBothWays(G)))

\* C6: a call with all five arguments present ends either with the empty
\* figure carrying the "no investors" title, the layout never having run, or
\* with a graph figure in which every surviving node has a position and
\* every edge joins the positions of two surviving nodes
C6_TwoOutcomes ==
    (pc = "done" /\ AllPresent) => (EmptyOutcome \/ GraphOutcome)

FirstIndex(s, x) == CHOOSE i \in 1..Len(s) : s[i] = x /\ \A j \in 1..(i - 1) : s[j] # x

\* the i-th entry of body is the i-th distinct entry of tx in first-seen order
IsFirstSeenPrefix(body, tx) ==
    \A i \in 1..Len(body) :
        /\ body[i] \in Range(tx)
        /\ Cardinality({y \in Range(tx) : FirstIndex(tx, y) < FirstIndex(tx, body[i])}) = i - 1

\* C7: the hover log of a surviving node is its transaction list without
\* repeats, in first-seen order; more than 3 distinct entries give the first
\* 3 and the marker, otherwise all of them and no marker
C7_HoverLog ==
    "render" \in ran =>
        \A n \in NodeSet(G) :
            /\ n \in DOMAIN investor_info
            /\ LET tx == investor_info[n].transactions
                   h == hover_texts[n].transactions
                   distinct == Cardinality(Range(tx))
               IN IF distinct > 3
                  THEN /\ Len(h) = 4
                       /\ h[4] = Ellipsis
                       /\ IsFirstSeenPrefix(SubSeq(h, 1, 3), tx)
                  ELSE /\ Len(h) = distinct
                       /\ Ellipsis \notin Range(h)
                       /\ IsFirstSeenPrefix(h, tx)

\* C7 witness: five transactions, four of them distinct, cut to three and
\* the marker
C7_Witness ==
    /\ "render" \in ran
    /\ \E n \in NodeSet(G) :
           /\ Len(investor_info[n].transactions) = 5
           /\ Cardinality(Range(investor_info[n].transactions)) = 4
           /\ Len(hover_texts[n].transactions) = 4
           /\ hover_texts[n].transactions[4] = Ellipsis

PairCountIs(count(_)) ==
    /\ \A i \in 1..Len(df_filtered) :
           df_filtered[i].names # <<>> =>
               Len(create_co_investment_pairs(Investors(df_filtered[i].names)))
                   = Triangular(count(df_filtered[i]))
    /\ Len(co_investments) =
           SumOver([i \in 1..Len(df_filtered) |->
                       IF df_filtered[i].names # <<>>
                       THEN Triangular(count(df_filtered[i])) ELSE 0],
                   1..Len(df_filtered))

EdgesAreASet ==
    /\ \A e1, e2 \in GEdges(G_built) : {e1[1], e1[2]} = {e2[1], e2[2]} => e1 = e2
    /\ Unordered(GEdges(G_built)) = Unordered(Range(co_investments))

RawCount(row) == Len(Investors(row.names))
NonEmptyCount(row) == Len(NonEmptyNames(row))

\* C8 as stated: a record whose investor list has k entries contributes
\* k(k-1)/2 pairs, and the graph holds each unordered pair once
C8_Original ==
    "build" \in ran => (PairCountIs(RawCount) /\ EdgesAreASet)

\* C8: a record with k non-empty trimmed names contributes k(k-1)/2 pairs,
\* one per index pair i<j of those names, and the graph holds each unordered
\* pair once
C8_PairsAndEdges ==
    "build" \in ran => (PairCountIs(NonEmptyCount) /\ EdgesAreASet)

\* C8 witness: a three-name record, and a,b / b,a from two records as one edge
C8_Witness ==
    /\ "build" \in ran
    /\ \E i \in 1..Len(df_filtered) : NonEmptyCount(df_filtered[i]) = 3
    /\ <<<<"a">>, <<"b">>>> \in Range(co_investments)
    /\ <<<<"b">>, <<"a">>>> \in Range(co_investments)
    /\ Cardinality(GEdges(G_built)) = 3

MultiInvestorNames ==
    UNION {Range(NonEmptyNames(df_filtered[i])) :
              i \in {j \in 1..Len(df_filtered) : NonEmptyCount(df_filtered[j]) >= 2}}

\* C9: the unpruned nodes are the non-empty names of the filtered records
\* that list two or more such names; each has degree >= 1 and rounds >= 1;
\* thresholds 0 and 1 prune nothing
C9_NodesAreCoInvestors ==
    /\ "build" \in ran =>
           /\ NodeSet(G_built) = MultiInvestorNames
           /\ \A n \in NodeSet(G_built) :
                  /\ Degree(G_built, n) >= 1
                  /\ n \in DOMAIN investor_info
                  /\ investor_info[n].rounds >= 1
    /\ "prune_rounds" \in ran =>
           /\ NodeSet(G) \subseteq MultiInvestorNames
           /\ (MinDegree <= 1 /\ MinRounds <= 1) => G = G_built
    /\ (pc = "done" /\ fig.kind = "graph") => Range(fig.nodes) \subseteq MultiInvestorNames

\* C9 witness: c is listed alone only and is absent from the figure drawn
\* with both thresholds 0
C9_Witness ==
    /\ pc = "done"
    /\ fig.kind = "graph"
    /\ MinDegree = 0
    /\ MinRounds = 0
    /\ <<"c">> \in DOMAIN investor_info
    /\ <<"c">> \notin Range(fig.nodes)

StructuralFilter(g, info, d, r) == PruneRoundsStage(PruneDegreeStage(g, d), info, r)
SwappedFilter(g, info, d, r) == PruneDegreeStage(PruneRoundsStage(g, info, r), d)

Survivors(d, r) ==
    {n \in NodeSet(G_built) : Degree(G_built, n) >= d /\ RoundsOf(investor_info, n) >= r}

FilterCharacterised ==
    /\ NodeSet(G) = Survivors(MinDegree, MinRounds)
    /\ G.adj = Induced(G_built, Survivors(MinDegree, MinRounds))
    /\ \A d \in MinDegree..(MaxMinDegree + 1), r \in MinRounds..(MaxMinRounds + 1) :
           LET g2 == StructuralFilter(G_built, investor_info, d, r)
           IN /\ NodeSet(g2) \subseteq NodeSet(G)
              /\ GEdgesBothWays(g2) \subseteq GEdgesBothWays(G)

\* C10 as stated: the characterisation, monotonicity, and the same result
\* with the two stages run in the other order
C10_Original ==
    "prune_rounds" \in ran =>
        /\ FilterCharacterised
        /\ SwappedFilter(G_built, investor_info, MinDegree, MinRounds) = G

\* C10: the surviving nodes are the unpruned nodes with unpruned degree
\* >= min_degree and rounds >= min_rounds, the surviving edges the unpruned
\* edges between them, and raising a threshold never adds a node or an edge
C10_FilterCharacterised ==
    "prune_rounds" \in ran => FilterCharacterised

\* C10 witness: each stage removes a node of its own and a node survives
C10_Witness ==
    /\ "prune_rounds" \in ran
    /\ NodeSet(G) # {}
    /\ NodeSet(G_deg) # NodeSet(G_built)
    /\ NodeSet(G) # NodeSet(G_deg)

====
